---- MODULE Spec2Model ----
(***************************************************************************)
(* Model of the blocking Aleo API client's batched ledger scan            *)
(* (rust/src/api/blocking.rs): AleoAPIClient::get_blocks and              *)
(* AleoAPIClient::scan.                                                   *)
(*                                                                         *)
(* Block heights are Rust u32 values.  They are represented as two 16-bit *)
(* limbs <<hi, lo>> (value = hi * 2^16 + lo) so that the full 32-bit     *)
(* width, including wrap-around at 2^32, is computed exactly.             *)
(***************************************************************************)
EXTENDS Integers, Naturals, Sequences, FiniteSets, TLC

VARIABLES
    ledger,              \* the remote ledger: block height -> owners of its records
    build,               \* "debug" (overflow checks on) or "release" (wrapping)
    op,                  \* the API call in progress: "none", "scan", "get_blocks"
    pc,                  \* "idle", "loop" (inside scan's for loop), "done"
    args,                \* the arguments of the call in progress
    view_key,            \* scan's local view_key
    address_x_coordinate,\* scan's local address_x_coordinate
    start_block_height,  \* scan's local start_block_height
    end_block_height,    \* scan's local end_block_height
    next_height,         \* position of the step_by(50) iterator
    records,             \* scan's local accumulator
    calls,               \* get_blocks invocations of the call in progress
    requests,            \* HTTP requests issued by the call in progress
    result               \* the value the call returned

vars == <<ledger, build, op, pc, args, view_key, address_x_coordinate,
          start_block_height, end_block_height, next_height, records,
          calls, requests, result>>

-----------------------------------------------------------------------------
(* Bounds and program constants *)

\* most records the whole ledger holds
MaxRecs == 2

\* get_blocks: "Cannot request more than 50 blocks at a time"
MaxBlocksPerRequest == 50

\* scan: step of the window iterator and rounding unit
Step == 50

-----------------------------------------------------------------------------
(* u32 arithmetic on limbs *)

Base == 2^16

\* the u32 with the given small value (n < 2^31)
U(n) == <<n \div Base, n % Base>>

IsU32(a) == a[1] \in 0..(Base - 1) /\ a[2] \in 0..(Base - 1)

lt32(a, b) == a[1] < b[1] \/ (a[1] = b[1] /\ a[2] < b[2])

le32(a, b) == ~lt32(b, a)

\* a + b on u32: the wrapped value and whether the addition overflowed
add32(a, b) ==
    LET lo == a[2] + b[2]
        hi == a[1] + b[1] + (lo \div Base)
    IN  [val |-> <<hi % Base, lo % Base>>, overflow |-> hi >= Base]

\* a - b on u32: the wrapped value and whether the subtraction underflowed
sub32(a, b) ==
    LET lo == a[2] - b[2]
        borrow == IF lo < 0 THEN 1 ELSE 0
        hi == a[1] - b[1] - borrow
    IN  [val |-> <<hi % Base, lo % Base>>, overflow |-> hi < 0]

\* a % m on u32, for a small modulus m
rem32(a, m) == (((a[1] % m) * (Base % m)) + a[2]) % m

-----------------------------------------------------------------------------
(* The ledger served by the remote node *)

Owners == {"A", "B"}

\* heights of the blocks that may hold records: 3, 49, 60 and 4294967210
BlockHeights == {U(3), U(49), U(60), <<65535, 65450>>}

RECURSIVE SeqsOfLen(_, _)
SeqsOfLen(S, n) ==
    IF n = 0 THEN {<<>>}
    ELSE {Append(s, x) : s \in SeqsOfLen(S, n - 1), x \in S}

SeqsUpTo(S, n) == UNION {SeqsOfLen(S, k) : k \in 0..n}

RECURSIVE SumLen(_, _)
SumLen(f, D) ==
    IF D = {} THEN 0
    ELSE LET d == CHOOSE x \in D : TRUE
         IN  Len(f[d]) + SumLen(f, D \ {d})

Ledgers ==
    {l \in [BlockHeights -> SeqsUpTo(Owners, MaxRecs)] :
        SumLen(l, BlockHeights) <= MaxRecs}

\* to_address().to_x_coordinate() of the view key of an account
AddressX(id) == <<"x", id>>

\* the block at height h: its records are (commitment, ciphertext) pairs;
\* the ciphertext is opaque but for the address it was encrypted to
BlockAt(h) ==
    [height |-> h,
     records |-> [i \in 1..Len(ledger[h]) |->
                    [commitment |-> <<h, i>>, owner_x |-> AddressX(ledger[h][i])]]]

RECURSIVE SortedHeights(_)
SortedHeights(H) ==
    IF H = {} THEN <<>>
    ELSE LET m == CHOOSE x \in H : \A y \in H : le32(x, y)
         IN  <<m>> \o SortedHeights(H \ {m})

\* the node's answer to /blocks?start=s&end=e: the blocks of [s, e), ascending
BlocksInRange(s, e) ==
    LET hs == SortedHeights({h \in BlockHeights : le32(s, h) /\ lt32(h, e)})
    IN  [i \in 1..Len(hs) |-> BlockAt(hs[i])]

\* outcomes of one HTTP round trip
Responses == {"ok", "call_failed", "parse_failed"}

-----------------------------------------------------------------------------
(* AleoAPIClient::get_blocks *)

ErrStart == "Start height must be less than end height"
ErrTooMany == "Cannot request more than 50 blocks at a time"
ErrParse == "Failed to parse blocks"
ErrCall == "request failed"
ErrViewKey == "Invalid view key"

\* get_blocks_check with the first comparison written > for >=
get_blocks_check_gt(start_height, end_height) ==
    IF lt32(end_height, start_height) THEN ErrStart
    ELSE IF lt32(U(MaxBlocksPerRequest), sub32(end_height, start_height).val)
         THEN ErrTooMany
         ELSE "ok"

\* the precondition checks of get_blocks: "ok" or the message it bails with
get_blocks_check(start_height, end_height) ==
    IF ~lt32(start_height, end_height) THEN ErrStart
    ELSE IF lt32(U(MaxBlocksPerRequest), sub32(end_height, start_height).val)
         THEN ErrTooMany
         ELSE "ok"

get_blocks(start_height, end_height, response) ==
    LET check == get_blocks_check(start_height, end_height)
    IN  IF check # "ok"
        THEN [ok |-> FALSE, err |-> check, issued |-> FALSE, blocks |-> <<>>]
        ELSE IF response = "call_failed"
        THEN [ok |-> FALSE, err |-> ErrCall, issued |-> TRUE, blocks |-> <<>>]
        ELSE IF response = "parse_failed"
        THEN [ok |-> FALSE, err |-> ErrParse, issued |-> TRUE, blocks |-> <<>>]
        ELSE [ok |-> TRUE, err |-> "none", issued |-> TRUE,
              blocks |-> BlocksInRange(start_height, end_height)]

-----------------------------------------------------------------------------
(* AleoAPIClient::scan *)

\* what a caller may pass as view_key: impl TryInto<ViewKey<N>>
CredentialInputs ==
    {[form |-> "private_key", id |-> "A"],
     [form |-> "view_key", id |-> "B"],
     [form |-> "invalid", id |-> "none"]}

NoInput == [form |-> "none", id |-> "none"]

\* try_into whose failure is not reported
try_into_unchecked(input) == [ok |-> TRUE, view_key |-> <<"vk", input.id>>]

\* view_key.try_into(): a private key derives its view key, a view key is
\* taken as it is, anything else fails
try_into(input) ==
    IF input.form \in {"private_key", "view_key"}
    THEN [ok |-> TRUE, view_key |-> <<"vk", input.id>>]
    ELSE [ok |-> FALSE, view_key |-> <<"vk", "none">>]

\* view_key.to_address().to_x_coordinate()
to_x_coordinate(vk) == AddressX(vk[2])

\* block_heights.start - (block_heights.start % 50)
round_down(start) == sub32(start, U(rem32(start, Step)))

\* block_heights.end + (50 - (block_heights.end % 50))
round_up(end) == add32(end, U(Step - rem32(end, Step)))

\* window_end one height too wide
window_end_51(start_height) == add32(start_height, U(Step + 1))

\* window_end without the window width
window_end_empty(start_height) == add32(start_height, U(0))

\* let end_height = start_height + 50
window_end(start_height) == add32(start_height, U(Step))

\* the step_by(50) iterator after yielding start_height
iter_next(start_height, end) ==
    LET n == add32(start_height, U(Step))
    IN  IF n.overflow THEN end ELSE n.val

into_records(block) == block.records

RECURSIVE flat_map(_)
flat_map(blocks) ==
    IF blocks = <<>> THEN <<>>
    ELSE into_records(Head(blocks)) \o flat_map(Tail(blocks))

is_owner_with_address_x_coordinate(record, vk, address_x) ==
    record.owner_x = address_x

RECURSIVE filter_map(_, _, _)
filter_map(recs, vk, address_x) ==
    IF recs = <<>> THEN <<>>
    ELSE (IF is_owner_with_address_x_coordinate(Head(recs), vk, address_x)
          THEN <<Head(recs)>> ELSE <<>>)
         \o filter_map(Tail(recs), vk, address_x)

\* extend that puts the new records in front
extend_front(recs, new) == new \o recs

extend(recs, new) == recs \o new

Ok(v) == [kind |-> "ok", err |-> "none", value |-> v]
Err(e) == [kind |-> "err", err |-> e, value |-> <<>>]
Panic == [kind |-> "panic", err |-> "attempt to add with overflow", value |-> <<>>]
NoResult == [kind |-> "none", err |-> "none", value |-> <<>>]

\* the prologue of scan, up to the for loop
scan_prologue(input, start, end, bld) ==
    LET conv == try_into(input)
        up == round_up(end)
        down == round_down(start)
    IN  IF ~conv.ok
        THEN [pc |-> "done", result |-> Err(ErrViewKey),
              view_key |-> conv.view_key, address_x |-> <<"x", "none">>,
              start_block_height |-> U(0), end_block_height |-> U(0)]
        ELSE IF (up.overflow \/ down.overflow) /\ bld = "debug"
        THEN [pc |-> "done", result |-> Panic,
              view_key |-> conv.view_key,
              address_x |-> to_x_coordinate(conv.view_key),
              start_block_height |-> U(0), end_block_height |-> U(0)]
        ELSE [pc |-> "loop", result |-> NoResult,
              view_key |-> conv.view_key,
              address_x |-> to_x_coordinate(conv.view_key),
              start_block_height |-> down.val, end_block_height |-> up.val]

\* scan_iteration that hands back what it has when a fetch fails
scan_iteration_partial(start_height, end, recs, vk, address_x, res) ==
    IF ~res.ok
    THEN [pc |-> "done", result |-> Ok(recs), records |-> recs,
          next_height |-> start_height]
    ELSE [pc |-> "loop", result |-> NoResult,
          records |-> extend(recs, filter_map(flat_map(res.blocks), vk, address_x)),
          next_height |-> iter_next(start_height, end)]

\* scan_iteration that skips a window whose fetch fails
scan_iteration_skip(start_height, end, recs, vk, address_x, res) ==
    [pc |-> "loop", result |-> NoResult,
     records |-> IF res.ok
                 THEN extend(recs, filter_map(flat_map(res.blocks), vk, address_x))
                 ELSE recs,
     next_height |-> iter_next(start_height, end)]

\* one pass of the loop body, given what get_blocks returned
scan_iteration(start_height, end, recs, vk, address_x, res) ==
    IF ~res.ok
    THEN [pc |-> "done", result |-> Err(res.err), records |-> recs,
          next_height |-> start_height]
    ELSE [pc |-> "loop", result |-> NoResult,
          records |-> extend(recs, filter_map(flat_map(res.blocks), vk, address_x)),
          next_height |-> iter_next(start_height, end)]

-----------------------------------------------------------------------------
(* Inputs *)

\* 0, 3, 50, 120, 4294967200, 4294967249, 4294967250, 4294967295
LowHeights == {U(0), U(3), U(50), U(120)}
HighHeights == {<<65535, 65440>>, <<65535, 65489>>}
TopHeights == {<<65535, 65490>>, <<65535, 65535>>}
ScanHeights == LowHeights \cup HighHeights \cup TopHeights

\* the ranges scanned; a range from a low start to a high end that does not
\* overflow would take tens of millions of windows and is left out
ScanRanges ==
    {r \in ScanHeights \X ScanHeights :
        ~(r[1] \in LowHeights /\ r[2] \in HighHeights)}

\* 0, 3, 50, 51, 53, 4294967200, 4294967250, 4294967295
GetHeights ==
    {U(0), U(3), U(50), U(51), U(53),
     <<65535, 65440>>, <<65535, 65490>>, <<65535, 65535>>}

-----------------------------------------------------------------------------
(* State machine *)

Init ==
    /\ ledger \in Ledgers
    /\ build \in {"debug", "release"}
    /\ op = "none"
    /\ pc = "idle"
    /\ args = [view_key |-> NoInput, start |-> U(0), end |-> U(0)]
    /\ view_key = <<"vk", "none">>
    /\ address_x_coordinate = <<"x", "none">>
    /\ start_block_height = U(0)
    /\ end_block_height = U(0)
    /\ next_height = U(0)
    /\ records = <<>>
    /\ calls = <<>>
    /\ requests = <<>>
    /\ result = NoResult

\* a caller invokes scan(input, start..end): lines 129-140
ScanStart(input, start, end) ==
    /\ pc = "idle"
    /\ LET p == scan_prologue(input, start, end, build)
       IN  /\ pc' = p.pc
           /\ result' = p.result
           /\ view_key' = p.view_key
           /\ address_x_coordinate' = p.address_x
           /\ start_block_height' = p.start_block_height
           /\ end_block_height' = p.end_block_height
           /\ next_height' = p.start_block_height
    /\ op' = "scan"
    /\ args' = [view_key |-> input, start |-> start, end |-> end]
    /\ records' = <<>>
    /\ calls' = <<>>
    /\ requests' = <<>>
    /\ UNCHANGED <<ledger, build>>

\* one iteration of the for loop: lines 142-156
ScanFetch(response) ==
    /\ pc = "loop"
    /\ lt32(next_height, end_block_height)
    /\ LET end_height == window_end(next_height)
       IN  IF end_height.overflow /\ build = "debug"
           THEN /\ pc' = "done"
                /\ result' = Panic
                /\ UNCHANGED <<records, next_height, calls, requests>>
           ELSE LET res == get_blocks(next_height, end_height.val, response)
                    it == scan_iteration(next_height, end_block_height, records,
                                         view_key, address_x_coordinate, res)
                IN  /\ pc' = it.pc
                    /\ result' = it.result
                    /\ records' = it.records
                    /\ next_height' = it.next_height
                    /\ calls' = Append(calls,
                                  [start_height |-> next_height,
                                   end_height |-> end_height.val,
                                   ok |-> res.ok, err |-> res.err])
                    /\ requests' = IF res.issued
                                   THEN Append(requests,
                                          [start |-> next_height,
                                           end |-> end_height.val])
                                   ELSE requests
    /\ UNCHANGED <<ledger, build, op, args, view_key, address_x_coordinate,
                   start_block_height, end_block_height>>

\* the iterator is exhausted: Ok(records), line 158
ScanReturn ==
    /\ pc = "loop"
    /\ ~lt32(next_height, end_block_height)
    /\ pc' = "done"
    /\ result' = Ok(records)
    /\ UNCHANGED <<ledger, build, op, args, view_key, address_x_coordinate,
                   start_block_height, end_block_height, next_height, records,
                   calls, requests>>

\* a caller invokes get_blocks(start_height, end_height): lines 63-77
GetBlocks(start_height, end_height, response) ==
    /\ pc = "idle"
    /\ LET res == get_blocks(start_height, end_height, response)
       IN  /\ result' = IF res.ok THEN Ok(res.blocks) ELSE Err(res.err)
           /\ calls' = <<[start_height |-> start_height, end_height |-> end_height,
                          ok |-> res.ok, err |-> res.err]>>
           /\ requests' = IF res.issued
                          THEN <<[start |-> start_height, end |-> end_height]>>
                          ELSE <<>>
    /\ op' = "get_blocks"
    /\ pc' = "done"
    /\ args' = [view_key |-> NoInput, start |-> start_height, end |-> end_height]
    /\ UNCHANGED <<ledger, build, view_key, address_x_coordinate,
                   start_block_height, end_block_height, next_height, records>>

\* the call has returned; its locals are dropped and the client is free again
Return ==
    /\ pc = "done"
    /\ op' = "none"
    /\ pc' = "idle"
    /\ args' = [view_key |-> NoInput, start |-> U(0), end |-> U(0)]
    /\ view_key' = <<"vk", "none">>
    /\ address_x_coordinate' = <<"x", "none">>
    /\ start_block_height' = U(0)
    /\ end_block_height' = U(0)
    /\ next_height' = U(0)
    /\ records' = <<>>
    /\ calls' = <<>>
    /\ requests' = <<>>
    /\ result' = NoResult
    /\ UNCHANGED <<ledger, build>>

Next ==
    \/ \E input \in CredentialInputs, r \in ScanRanges : ScanStart(input, r[1], r[2])
    \/ \E response \in Responses : ScanFetch(response)
    \/ ScanReturn
    \/ \E s \in GetHeights, e \in GetHeights, response \in Responses :
          GetBlocks(s, e, response)
    \/ Return

Spec == Init /\ [][Next]_vars

TypeOK ==
    /\ build \in {"debug", "release"}
    /\ op \in {"none", "scan", "get_blocks"}
    /\ pc \in {"idle", "loop", "done"}
    /\ IsU32(start_block_height) /\ IsU32(end_block_height) /\ IsU32(next_height)
    /\ result.kind \in {"none", "ok", "err", "panic"}

-----------------------------------------------------------------------------
(* Vocabulary of the properties *)

\* a + n as a natural number, not reduced modulo 2^32 (the high limb may
\* reach 2^16)
NatAdd(a, n) ==
    LET lo == a[2] + n
    IN  <<a[1] + (lo \div Base), lo % Base>>

\* aligned_start = start - (start mod 50)
AlignedStart(start) == sub32(start, U(rem32(start, Step))).val

\* aligned_end = end + (50 - (end mod 50)), as a natural number
AlignedEnd(end) == NatAdd(end, Step - rem32(end, Step))

InInterval(h, a, b) == le32(a, h) /\ lt32(h, b)

SeqRange(q) == {q[i] : i \in 1..Len(q)}

AllRecords == UNION {SeqRange(BlockAt(h).records) : h \in BlockHeights}

ValidInput == args.view_key.form \in {"private_key", "view_key"}

ScanReturnedOk == op = "scan" /\ pc = "done" /\ result.kind = "ok"

\* position of a record in the ledger: block height, then index in the block
Before(r1, r2) ==
    \/ lt32(r1.commitment[1], r2.commitment[1])
    \/ r1.commitment[1] = r2.commitment[1] /\ r1.commitment[2] < r2.commitment[2]

Ascending(q) == \A i, j \in 1..Len(q) : i < j => Before(q[i], q[j])

IsPrefix(p, q) == Len(p) <= Len(q) /\ \A i \in 1..Len(p) : p[i] = q[i]

AllFetchesOk == \A i \in 1..Len(calls) : calls[i].ok

-----------------------------------------------------------------------------
(* Properties *)

\* C1: a scan in which every fetch succeeds returns exactly the records that
\* are owned by the credential and lie in a block whose height is in
\* [aligned_start, aligned_end).
C1_ExactOwnedRecords ==
    ScanReturnedOk =>
        SeqRange(result.value) =
            {r \in AllRecords :
                /\ r.owner_x = AddressX(args.view_key.id)
                /\ InInterval(r.commitment[1], AlignedStart(args.start),
                              AlignedEnd(args.end))}

\* C4: for every u32 start and end, the bounds scan computes satisfy
\* aligned_start <= start, aligned_start the greatest multiple of 50 that is
\* <= start, and aligned_end > end strictly.
C4_RoundingLaws ==
    (op = "scan" /\ ValidInput /\ result.kind # "panic") =>
        /\ le32(start_block_height, args.start)
        /\ rem32(start_block_height, Step) = 0
        /\ lt32(args.start, NatAdd(start_block_height, Step))
        /\ lt32(args.end, end_block_height)

\* C8: in a scan where every fetch succeeds the get_blocks calls are exactly
\* the windows [aligned_start + 50k, aligned_start + 50(k+1)), in ascending
\* order, each fetched once, up to aligned_end.
C8_WindowSequence ==
    ScanReturnedOk =>
        /\ \A i \in 1..Len(calls) :
              /\ calls[i].start_height =
                    (IF i = 1 THEN AlignedStart(args.start)
                     ELSE calls[i - 1].end_height)
              /\ calls[i].end_height = NatAdd(calls[i].start_height, Step)
        /\ IF calls = <<>>
           THEN ~lt32(AlignedStart(args.start), AlignedEnd(args.end))
           ELSE calls[Len(calls)].end_height = AlignedEnd(args.end)
        /\ Len(requests) = Len(calls)

\* C2: if the get_blocks call of any window fails, scan returns that error
\* and no records, the records kept from earlier windows included.
C2_FailFastNoPartial ==
    (op = "scan" /\ ~AllFetchesOk) =>
        /\ pc = "done"
        /\ result.kind = "err"
        /\ result.value = <<>>
        /\ \E i \in 1..Len(calls) : ~calls[i].ok /\ result.err = calls[i].err

\* a later window failed after earlier windows had yielded owned records
C2_Witness ==
    /\ op = "scan" /\ pc = "done" /\ result.kind = "err"
    /\ Len(calls) >= 2 /\ records # <<>>

\* C3: if the credential input does not convert to a view key, scan returns
\* the invalid-credential error and has made no get_blocks call and no
\* request, whatever the height range.
C3_InvalidCredentialNoIO ==
    (op = "scan" /\ args.view_key.form = "invalid") =>
        /\ pc = "done"
        /\ result = Err(ErrViewKey)
        /\ calls = <<>>
        /\ requests = <<>>

\* an invalid credential with a range that would otherwise be scanned
C3_Witness ==
    /\ op = "scan" /\ pc = "done" /\ args.view_key.form = "invalid"
    /\ args.start = U(0) /\ args.end = U(120)
    /\ result.err = ErrViewKey

\* C5: get_blocks returns an error without issuing a request when
\* start_height >= end_height and when end_height - start_height > 50; it
\* issues a request only when start_height < end_height and
\* end_height - start_height <= 50.
C5_GetBlocksPreconditions ==
    (op = "get_blocks" /\ pc = "done") =>
        /\ ~lt32(args.start, args.end) =>
              result = Err(ErrStart) /\ requests = <<>>
        /\ (lt32(args.start, args.end) /\ lt32(NatAdd(args.start, Step), args.end)) =>
              result = Err(ErrTooMany) /\ requests = <<>>
        /\ (lt32(args.start, args.end) /\ ~lt32(NatAdd(args.start, Step), args.end)) =>
              requests = <<[start |-> args.start, end |-> args.end]>>
        /\ requests # <<>> =>
              lt32(args.start, args.end) /\ ~lt32(NatAdd(args.start, Step), args.end)

\* get_blocks called with start_height = end_height
C5_Witness ==
    /\ op = "get_blocks" /\ pc = "done"
    /\ args.start = args.end
    /\ result.err = ErrStart /\ requests = <<>>

\* C6 as stated: a scan called with start >= end reaches get_blocks and is
\* rejected there by its start-less-than-end check.
C6_RejectedByGetBlocks ==
    (op = "scan" /\ pc = "done" /\ ValidInput /\ result.kind # "panic"
        /\ ~lt32(args.start, args.end)) =>
        /\ calls # <<>>
        /\ result = Err(ErrStart)

\* C6 as amended: scan does not check start < end and neither does the
\* page-fetch step for it: get_blocks only sees the aligned windows, which
\* pass its start-less-than-end check.  A scan called with start >= end makes
\* no get_blocks call and returns an empty result when the aligned interval
\* is empty, and otherwise fetches the aligned windows and returns Ok unless
\* a request fails.
C6_InvertedRangeNotRejected ==
    (op = "scan" /\ ~lt32(args.start, args.end)) =>
        /\ \A i \in 1..Len(calls) :
              /\ lt32(calls[i].start_height, calls[i].end_height)
              /\ calls[i].err \notin {ErrStart, ErrTooMany}
        /\ result.err \notin {ErrStart, ErrTooMany}
        /\ (pc = "done" /\ ValidInput /\ result.kind # "panic") =>
              /\ AllFetchesOk => result.kind = "ok"
              /\ ~lt32(start_block_height, end_block_height) =>
                    calls = <<>> /\ result = Ok(<<>>)

\* a scan of an empty range that fetched a window and returned Ok
C6_Witness ==
    /\ ScanReturnedOk
    /\ args.start = args.end
    /\ Len(calls) = 1

\* C7: every window scan passes to get_blocks has start_height mod 50 = 0
\* and end_height = start_height + 50, so start_height < end_height and
\* end_height - start_height <= 50: no call of scan triggers the
\* precondition errors of get_blocks.
C7_WindowsSatisfyPreconditions ==
    op = "scan" =>
        \A i \in 1..Len(calls) :
            /\ rem32(calls[i].start_height, Step) = 0
            /\ calls[i].end_height = NatAdd(calls[i].start_height, Step)
            /\ lt32(calls[i].start_height, calls[i].end_height)
            /\ ~lt32(NatAdd(calls[i].start_height, MaxBlocksPerRequest),
                     calls[i].end_height)
            /\ calls[i].err \notin {ErrStart, ErrTooMany}

\* a scan that fetched several windows
C7_Witness ==
    /\ op = "scan" /\ pc = "done"
    /\ Len(calls) >= 2

\* C9: the result is ordered by window, then by block within the page, then
\* by position within the block, and the accumulator is only appended to.
C9_OrderedAppendOnly ==
    /\ [](op = "scan" => Ascending(records) /\ Ascending(result.value))
    /\ [][(op = "scan" /\ op' = "scan") => IsPrefix(records, records')]_vars
    /\ [](ScanReturnedOk => result.value = records)

\* a result holding records of two different windows
C9_Witness ==
    /\ ScanReturnedOk
    /\ Len(result.value) = 2
    /\ result.value[1].commitment[1] = U(3)
    /\ result.value[2].commitment[1] = U(60)

\* C10: after a get_blocks call of a scan fails the scan issues no further
\* get_blocks call: the failed call is the last one, and the scan has ended
\* with its error.
C10_NoCallAfterFailure ==
    op = "scan" =>
        /\ \A i \in 1..Len(calls) : ~calls[i].ok => i = Len(calls)
        /\ (calls # <<>> /\ ~calls[Len(calls)].ok) =>
              /\ pc = "done"
              /\ result = Err(calls[Len(calls)].err)
              /\ Len(requests) = Len(calls)

\* the fetch of a window failed while later windows were still to come
C10_Witness ==
    /\ op = "scan" /\ pc = "done"
    /\ calls # <<>> /\ ~calls[Len(calls)].ok
    /\ lt32(calls[Len(calls)].end_height, end_block_height)

====
